---- MODULE Spec2Model ----
(***************************************************************************)
(* AlgeriaMinha Telegram bot: the change monitor (monitor_loop,            *)
(* notify_all_subscribers), the update dispatcher (updates_loop,           *)
(* process_update), the subscriber store (SUBSCRIBERS, subscribers.json)   *)
(* and the pure helpers detect_language and ai_reply.                      *)
(*                                                                         *)
(* The repository holds two implementations of the same bot: src/main.py   *)
(* (impl = "main") and the one-file deploy                                 *)
(* src/algeria_minha_telegram_bot_one_click_ready.py (impl = "oneclick").  *)
(* The variable impl is fixed by Init and selects the code being run.      *)
(*                                                                         *)
(* A text is a sequence of characters.  Latin characters are one-character *)
(* strings; an Arabic letter is written by its Unicode name ("MEEM").      *)
(***************************************************************************)
EXTENDS Integers, Sequences, FiniteSets, TLC

(* ---------------------------------------------------------------- bounds *)
\* number of inbound updates the chat platform produces in a run
MaxUpdates == 3
\* the same, while the change monitor runs beside the dispatcher
MaxConcurrentUpdates == 2
\* id of the first inbound update (the platform's ids are positive)
FirstUpdateId == 5

None == "None"

ChatIds == {100, 200}

MINHA_URL == "https://minha.anem.dz/pre_inscription"

(* ------------------------------------------------------ text primitives *)
UPPER == <<"A","B","C","D","E","F","G","H","I","J","K","L","M",
           "N","O","P","Q","R","S","T","U","V","W","X","Y","Z">>
LOWER == <<"a","b","c","d","e","f","g","h","i","j","k","l","m",
           "n","o","p","q","r","s","t","u","v","w","x","y","z">>

\* the lower-case form of each upper-case letter
ToLower ==
    [c \in {UPPER[i] : i \in 1..26} \cup {"E_GRAVE"} |->
        IF c = "E_GRAVE" THEN "e_grave"
        ELSE LOWER[CHOOSE i \in 1..26 : UPPER[i] = c]]

\* str.lower() on one character
LowerChar(c) == IF c \in DOMAIN ToLower THEN ToLower[c] ELSE c

\* str.lower()
Lower(text) == [i \in 1..Len(text) |-> LowerChar(text[i])]

\* k in t  (substring test)
Contains(t, k) ==
    \E i \in 0..(Len(t) - Len(k)) :
        \A j \in 1..Len(k) : t[i + j] = k[j]

WHITESPACE == {" ", "\n", "\t"}

\* text.startswith('/')
StartsWithSlash(text) == Len(text) > 0 /\ text[1] = "/"

\* text.split()[0] : the first whitespace-delimited token
\* (only evaluated on a text that has a non-whitespace character)
FirstToken(text) ==
    LET first == CHOOSE i \in 1..Len(text) :
                     /\ text[i] \notin WHITESPACE
                     /\ \A j \in 1..(i - 1) : text[j] \in WHITESPACE
        stops == {i \in first..Len(text) : text[i] \in WHITESPACE}
        last  == IF stops = {} THEN Len(text)
                 ELSE (CHOOSE i \in stops : \A j \in stops : i <= j) - 1
    IN  SubSeq(text, first, last)

(* --------------------------------------------------- language detection *)
ARABIC_LETTERS ==
    {"ALEF","BEH","TEH","THEH","JEEM","HAH","KHAH","DAL","THAL","REH","ZAIN",
     "SEEN","SHEEN","SAD","DAD","TAH","ZAH","AIN","GHAIN","FEH","QAF","KAF",
     "LAM","MEEM","NOON","HEH","WAW","YEH","ALEF_MAKSURA","HAMZA",
     "YEH_HAMZA","TEH_MARBUTA"}

FRENCH_KEYWORDS ==
    { <<"m","i","n","i","s","t","e_grave","r","e">>,
      <<"d","e","m","a","n","d","e">>,
      <<"i","n","s","c","r","i","p","t","i","o","n">>,
      <<"o","f","f","r","e">>,
      <<"e","m","p","l","o","i">>,
      <<"b","o","n","j","o","u","r">>,
      <<"m","e","r","c","i">> }

DetectFrenchFirst(text) ==
    LET t == Lower(text) IN
    IF \E k \in FRENCH_KEYWORDS : Contains(t, k) THEN "fr"
    ELSE IF \E i \in 1..Len(t) : t[i] \in ARABIC_LETTERS THEN "ar"
    ELSE "en"
detect_language(text) ==
    LET t == Lower(text) IN
    IF \E i \in 1..Len(t) : t[i] \in ARABIC_LETTERS THEN "ar"
    ELSE IF \E k \in FRENCH_KEYWORDS : Contains(t, k) THEN "fr"
    ELSE "en"

(* ------------------------------------------------------ reply generator *)
\* keyword groups of ai_reply; the one-file deploy lists two more phrases
TIMING_KEYWORDS(im) ==
    { <<"MEEM","TEH","ALEF_MAKSURA">>,
      <<"WAW","QAF","TEH">>,
      <<"MEEM","FEH","TEH","WAW","HAH">> }
    \cup (IF im = "oneclick"
           THEN { <<"MEEM","TEH","ALEF_MAKSURA"," ","YEH","FEH","TEH","HAH">> }
           ELSE {})

DOCUMENT_KEYWORDS(im) ==
    { <<"KAF","YEH","FEH">>,
      <<"WAW","THEH","ALEF","YEH_HAMZA","QAF">>,
      <<"d","o","c","u","m","e","n","t","s">> }
    \cup (IF im = "oneclick"
           THEN { <<"WAW","ALEF","SHEEN"," ","LAM","ALEF","ZAIN","MEEM">> }
           ELSE {})

\* A message text of the bot is one of its string literals, named by the
\* table it comes from and the language of the entry.
Lit(table, lang) == [msg |-> table, lang |-> lang]

ai_reply(im, user_text, lang) ==
    LET t == Lower(user_text) IN
    IF \E x \in TIMING_KEYWORDS(im) : Contains(t, x) THEN Lit("ai_timing", lang)
    ELSE IF \E x \in DOCUMENT_KEYWORDS(im) : Contains(t, x)
         THEN Lit("ai_documents", lang)
    ELSE Lit("ai_fallback", lang)

\* msg["ar"] of notify_all_subscribers: the Arabic alert, built from MINHA_URL
AlertText == [msg |-> "alert", lang |-> "ar", url |-> MINHA_URL]

(* ------------------------------------------------------------- commands *)
CMD_START       == <<"/","s","t","a","r","t">>
CMD_MINHA       == <<"/","m","i","n","h","a">>
CMD_STOP        == <<"/","s","t","o","p">>
CMD_UNSUBSCRIBE == <<"/","u","n","s","u","b","s","c","r","i","b","e">>
CMD_HELP        == <<"/","h","e","l","p">>
CMD_AIDE        == <<"/","a","i","d","e">>

\* the branch of process_update a text takes
BranchUnknownAsHelp(text) ==
    IF ~StartsWithSlash(text) THEN "text"
    ELSE LET cmd == Lower(FirstToken(text)) IN
         IF cmd = CMD_START THEN "start"
         ELSE IF cmd = CMD_MINHA THEN "minha"
         ELSE IF cmd \in {CMD_STOP, CMD_UNSUBSCRIBE} THEN "stop"
         ELSE "help"
Branch(text) ==
    IF ~StartsWithSlash(text) THEN "text"
    ELSE LET cmd == Lower(FirstToken(text)) IN
         IF cmd = CMD_START THEN "start"
         ELSE IF cmd = CMD_MINHA THEN "minha"
         ELSE IF cmd \in {CMD_STOP, CMD_UNSUBSCRIBE} THEN "stop"
         ELSE IF cmd \in {CMD_HELP, CMD_AIDE} THEN "help"
         ELSE "unknown"

\* reply of the /stop and /unsubscribe branch
StopReply(im, lang, wasMember) ==
    IF im = "main"
    THEN Lit("stop_ok", lang)
    ELSE IF wasMember THEN Lit("stop_ok", "ar")
         ELSE Lit("not_subscribed", "en")

\* SUBSCRIBERS.add(chat_id)
SubscribeOnly(subs, chat_id) == {chat_id}
Subscribe(subs, chat_id) == subs \cup {chat_id}

\* SUBSCRIBERS.discard(chat_id)
Unsubscribe(subs, chat_id) == subs \ {chat_id}

\* the branches that call save_subscribers(); the one-file deploy has no file
SavesOnAddOnly(im, b) == im = "main" /\ b = "minha"
SavesOn(im, b) == im = "main" /\ b \in {"minha", "stop"}

\* An update is [update_id, kind, chat, text]:
\*   kind "nomessage" : no 'message' key (e.g. an edited_message update)
\*   kind "nochat"    : a message without a 'chat' field
\*   kind "message"   : a message with chat id and text ('' when absent)
\* process_update up to its send_message call:
\*   outcome "return" (no message), "raise" (KeyError) or "reply";
\*   subs the subscriber set it leaves, save whether save_subscribers is
\*   called, reply the arguments of the send_message call (<<>> if none).
process_update(im, update, subs) ==
    IF update.kind = "nomessage"
    THEN [outcome |-> "return", subs |-> subs, save |-> FALSE, reply |-> <<>>]
    ELSE IF update.kind = "nochat"
    THEN [outcome |-> "raise", subs |-> subs, save |-> FALSE, reply |-> <<>>]
    ELSE
      LET text    == update.text
          chat_id == update.chat
          lang    == detect_language(text)
          b       == Branch(text)
          to(t)   == << [to |-> chat_id, text |-> t] >>
      IN  CASE b = "start" ->
                 [outcome |-> "reply", subs |-> subs, save |-> FALSE,
                  reply |-> to(Lit("welcome", lang))]
            [] b = "minha" ->
                 [outcome |-> "reply", subs |-> Subscribe(subs, chat_id),
                  save |-> SavesOn(im, b),
                  reply |-> to(Lit("minha_ok", lang))]
            [] b = "stop" ->
                 [outcome |-> "reply", subs |-> Unsubscribe(subs, chat_id),
                  save |-> SavesOn(im, b),
                  reply |-> to(StopReply(im, lang, chat_id \in subs))]
            [] b = "help" ->
                 [outcome |-> "reply", subs |-> subs, save |-> FALSE,
                  reply |-> to(Lit("help", lang))]
            [] OTHER ->
                 [outcome |-> "reply", subs |-> subs, save |-> FALSE,
                  reply |-> to(ai_reply(im, text, lang))]

(* ---------------------------------------------------------------- state *)
VARIABLES
    impl,          \* which of the two programs runs: "main" or "oneclick"
    SUBSCRIBERS,   \* the in-memory subscriber set
    file,          \* subscribers.json: <<>> when absent, else <<list>>
    LAST_CONTENT,  \* page snapshot, None before the first successful fetch
    r,             \* outcome of the monitor's last requests.get
    mpc,           \* monitor_loop position: fetch, notify, send, sleep
    todo,          \* rest of list(SUBSCRIBERS) still to be sent to
    prev,          \* history: LAST_CONTENT when the current tick began
    notified,      \* history: notify_all_subscribers ran in the current tick
    bcast,         \* history: SUBSCRIBERS when the last broadcast listed it
    bfile,         \* history: file when the last broadcast listed SUBSCRIBERS
    alerts,        \* history: send_message calls of the last broadcast
    OFFSET,        \* dispatcher cursor: <<>> for None, else <<n>>
    upc,           \* updates_loop position: poll, batch, save, reply, sleep
    params,        \* offset of the last getUpdates request (<<>> if omitted)
    batch,         \* rest of data['result'] still to be iterated
    cur,           \* update given to the last process_update call (<<>> none)
    out,           \* arguments of the pending send_message call (<<>> none)
    replies,       \* history: send_message calls made for cur
    polled,        \* history: how the last getUpdates request ended
    pending,       \* chat platform: ids of the updates it still holds
    nextId,        \* chat platform: id of the next update it will create
    processed,     \* history: process_update calls per update id (capped)
    committed,     \* history: SUBSCRIBERS when the last mutating call returned
    boots,         \* history: number of restarts of the process
    TELEGRAM_TOKEN,\* os.getenv("TELEGRAM_TOKEN"): None when unset
    phase,         \* start-up position: import, store, main, running, exited
    sample,        \* a text handed to detect_language on its own
    detected,      \* what detect_language returned for sample (<<>> not yet)
    hung           \* the loop whose sendMessage peer has stopped answering

mvars == <<LAST_CONTENT, r, mpc, todo, prev, notified, bcast, bfile, alerts>>
uvars == <<OFFSET, upc, params, batch, cur, out, replies, processed, polled>>
svars == <<pending, nextId, committed, boots>>
cvars == <<TELEGRAM_TOKEN, phase, sample, detected, hung>>
vars  == <<impl, SUBSCRIBERS, file, mvars, uvars, svars, cvars>>

LastUpdateId == FirstUpdateId + MaxUpdates - 1
UpdateIds    == FirstUpdateId..LastUpdateId

Range(s) == {s[i] : i \in 1..Len(s)}

\* list(S): the members of a set in some iteration order
Lists(S) == {l \in [1..Cardinality(S) -> S] : Range(l) = S}

\* sorted list of a set of integers
RECURSIVE Sorted(_)
Sorted(S) ==
    IF S = {} THEN <<>>
    ELSE LET m == CHOOSE x \in S : \A y \in S : x <= y
         IN  <<m>> \o Sorted(S \ {m})

\* load_subscribers: set(json.load(f)) if the file exists, else set()
LoadNothing(f) == {}
load_subscribers(f) == IF f = <<>> THEN {} ELSE Range(f[1])

\* what the monitored page can answer: body and HTTP status
Contents == {"", "A"}
Statuses == {200, 503}
NoResponse == [err |-> "none", status |-> 0, text |-> ""]

\* texts of inbound messages
AllTexts ==
    { <<"/","m","i","n","h","a">>,
      <<"/","M","I","N","H","A"," ","m","e","r","c","i">>,
      <<"/","m","i","n","h","a"," ","MEEM","TEH","ALEF_MAKSURA">>,
      <<"/","s","t","o","p">>,
      <<"/","u","n","s","u","b","s","c","r","i","b","e"," ","B","o","n","j","o","u","r">>,
      <<"/","s","t","a","r","t">>,
      <<"/","a","i","d","e">>,
      <<"/","f","o","o">>,
      <<"b","o","n","j","o","u","r">>,
      <<>> }

\* the texts that reach the subscriber store
CoreTexts ==
    { <<"/","m","i","n","h","a">>,
      <<"/","s","t","o","p">> }

Updates(id, texts) ==
    { [update_id |-> id, kind |-> "nomessage", chat |-> 0, text |-> <<>>],
      [update_id |-> id, kind |-> "nochat", chat |-> 0, text |-> <<>>] }
    \cup { [update_id |-> id, kind |-> "message", chat |-> c, text |-> t] :
             c \in ChatIds, t \in texts }

(* ----------------------------------------------------------------- Init *)
Init ==
    /\ impl \in {"main", "oneclick"}
    /\ file \in IF impl = "main"
                THEN {<<>>} \cup { <<l>> : l \in UNION {Lists(S) : S \in SUBSET ChatIds} }
                ELSE {<<>>}
    /\ SUBSCRIBERS = IF impl = "main" THEN load_subscribers(file) ELSE {}
    /\ LAST_CONTENT = None
    /\ r = NoResponse
    /\ mpc = "fetch"
    /\ todo = <<>>
    /\ prev = None
    /\ notified = FALSE
    /\ bcast = {}
    /\ bfile = <<>>
    /\ alerts = <<>>
    /\ OFFSET = <<>>
    /\ upc = "poll"
    /\ params = <<>>
    /\ batch = <<>>
    /\ cur = <<>>
    /\ out = <<>>
    /\ replies = <<>>
    /\ polled = "none"
    /\ pending = {}
    /\ nextId = FirstUpdateId
    /\ processed = [i \in UpdateIds |-> 0]
    /\ committed = SUBSCRIBERS
    /\ boots = 0
    /\ TELEGRAM_TOKEN = "123:abc"
    /\ phase = "running"
    /\ sample = <<>>
    /\ detected = <<>>
    /\ hung = "none"

(* ------------------------------------------------------- change monitor *)
\* the comparison of monitor_loop: the snapshot to keep and whether to notify
CompareNoFirstCheck(last, content) ==
    IF content # last THEN [snapshot |-> content, trigger |-> TRUE]
    ELSE [snapshot |-> last, trigger |-> FALSE]
CompareKeepSnapshot(last, content) ==
    IF last = None THEN [snapshot |-> content, trigger |-> FALSE]
    ELSE IF content # last THEN [snapshot |-> last, trigger |-> TRUE]
    ELSE [snapshot |-> last, trigger |-> FALSE]
Compare(last, content) ==
    IF last = None THEN [snapshot |-> content, trigger |-> FALSE]
    ELSE IF content # last THEN [snapshot |-> content, trigger |-> TRUE]
    ELSE [snapshot |-> last, trigger |-> FALSE]

\* requests.get raises (network error or timeout): the except clause logs
MonitorFetchFail(kind) ==
    /\ mpc = "fetch"
    /\ r' = [err |-> kind, status |-> 0, text |-> ""]
    /\ prev' = LAST_CONTENT
    /\ notified' = FALSE
    /\ mpc' = "sleep"
    /\ UNCHANGED <<impl, cvars, SUBSCRIBERS, file, LAST_CONTENT, todo, bcast, bfile,
                   alerts, uvars, svars>>

\* requests.get returns a response, of whatever status; content = r.text
MonitorFetch(status, content) ==
    /\ mpc = "fetch"
    /\ r' = [err |-> "none", status |-> status, text |-> content]
    /\ prev' = LAST_CONTENT
    /\ notified' = FALSE
    /\ LET c == Compare(LAST_CONTENT, content) IN
         /\ LAST_CONTENT' = c.snapshot
         /\ mpc' = IF c.trigger THEN "notify" ELSE "sleep"
    /\ UNCHANGED <<impl, cvars, SUBSCRIBERS, file, todo, bcast, bfile, alerts,
                   uvars, svars>>

\* notify_all_subscribers: list(SUBSCRIBERS)
NotifyEveryChat ==
    /\ mpc = "notify"
    /\ todo' \in Lists(ChatIds)
    /\ bcast' = SUBSCRIBERS
    /\ bfile' = file
    /\ alerts' = <<>>
    /\ notified' = TRUE
    /\ mpc' = "send"
    /\ UNCHANGED <<impl, cvars, SUBSCRIBERS, file, LAST_CONTENT, r, prev, uvars, svars>>
NotifyList ==
    /\ mpc = "notify"
    /\ todo' \in Lists(SUBSCRIBERS)
    /\ bcast' = SUBSCRIBERS
    /\ bfile' = file
    /\ alerts' = <<>>
    /\ notified' = TRUE
    /\ mpc' = "send"
    /\ UNCHANGED <<impl, cvars, SUBSCRIBERS, file, LAST_CONTENT, r, prev, uvars, svars>>

\* what is left of the broadcast after a send_message call that failed:
\* main.py catches inside send_message, the one-file deploy in the loop body
AbortAfterFailedAlert(rest) == <<>>
AfterFailedAlert(rest) == rest

\* one iteration of the for loop: send_message(chat_id, msg["ar"])
NotifySendPruning(ok) ==
    /\ mpc = "send"
    /\ todo # <<>>
    /\ alerts' = Append(alerts, [to |-> Head(todo), text |-> AlertText, ok |-> ok])
    /\ todo' = IF ok THEN Tail(todo) ELSE AfterFailedAlert(Tail(todo))
    /\ SUBSCRIBERS' = IF ok THEN SUBSCRIBERS ELSE SUBSCRIBERS \ {Head(todo)}
    /\ UNCHANGED <<impl, cvars, file, LAST_CONTENT, r, mpc, prev, notified,
                   bcast, bfile, uvars, svars>>
NotifySend(ok) ==
    /\ mpc = "send"
    /\ todo # <<>>
    /\ alerts' = Append(alerts, [to |-> Head(todo), text |-> AlertText, ok |-> ok])
    /\ todo' = IF ok THEN Tail(todo) ELSE AfterFailedAlert(Tail(todo))
    /\ UNCHANGED <<impl, cvars, SUBSCRIBERS, file, LAST_CONTENT, r, mpc, prev, notified,
                   bcast, bfile, uvars, svars>>

\* the for loop is exhausted; control returns to monitor_loop
NotifyDone ==
    /\ mpc = "send"
    /\ todo = <<>>
    /\ mpc' = "sleep"
    /\ UNCHANGED <<impl, cvars, SUBSCRIBERS, file, LAST_CONTENT, r, todo, prev, notified,
                   bcast, bfile, alerts, uvars, svars>>

\* time.sleep(CHECK_INTERVAL), then the next tick
\* (the history of the finished tick is dropped)
MonitorSleep ==
    /\ mpc = "sleep"
    /\ mpc' = "fetch"
    /\ r' = NoResponse
    /\ prev' = None
    /\ notified' = FALSE
    /\ bcast' = {}
    /\ bfile' = <<>>
    /\ alerts' = <<>>
    /\ UNCHANGED <<impl, cvars, SUBSCRIBERS, file, LAST_CONTENT, todo, uvars, svars>>

(* ------------------------------------------------------- chat platform *)
\* a user's message reaches the platform and gets the next update id
ServerReceive(limit) ==
    /\ nextId < FirstUpdateId + limit
    /\ pending' = pending \cup {nextId}
    /\ nextId' = nextId + 1
    /\ UNCHANGED <<impl, cvars, SUBSCRIBERS, file, mvars, uvars, committed, boots>>

(* ---------------------------------------------------- update dispatcher *)
\* if OFFSET: params['offset'] = OFFSET
RequestParams(offset) ==
    IF offset # <<>> /\ offset[1] # 0 THEN offset ELSE <<>>

\* getUpdates: the platform forgets the updates below the offset and
\* answers with the ones it still holds, in id order
Confirmed(held, p) == IF p = <<>> THEN held ELSE {i \in held : i >= p[1]}

\* OFFSET = upd['update_id'] + 1
NextOffsetSameId(update_id) == <<update_id>>
NextOffset(update_id) == <<update_id + 1>>

\* the cursor once the for loop has taken an update: it is assigned before
\* process_update is called, whatever process_update then does
CursorIfHandled(offset, update_id, outcome) ==
    IF outcome = "raise" THEN offset ELSE NextOffset(update_id)
Cursor(offset, update_id, outcome) == NextOffset(update_id)

\* the request raises (network error, timeout, body that is not JSON):
\* except clause, then time.sleep(2)
PollFail ==
    /\ upc = "poll"
    /\ params' = RequestParams(OFFSET)
    /\ upc' = "sleep"
    /\ polled' = "error"
    /\ UNCHANGED <<impl, cvars, SUBSCRIBERS, file, mvars, OFFSET, batch, cur, out,
                   replies, processed, svars>>

\* the platform answers {"ok": false} with no result: main.py iterates over
\* the empty default and polls again, the one-file deploy sleeps first
PollNotOk ==
    /\ upc = "poll"
    /\ params' = RequestParams(OFFSET)
    /\ upc' = IF impl = "main" THEN "batch" ELSE "sleep"
    /\ batch' = <<>>
    /\ polled' = "notok"
    /\ UNCHANGED <<impl, cvars, SUBSCRIBERS, file, mvars, OFFSET, cur, out, replies,
                   processed, svars>>

\* the platform answers with the updates it holds from the offset on
PollOk ==
    /\ upc = "poll"
    /\ LET p == RequestParams(OFFSET) IN
         /\ params' = p
         /\ pending' = Confirmed(pending, p)
         /\ batch' = Sorted(Confirmed(pending, p))
    /\ upc' = "batch"
    /\ polled' = "ok"
    /\ UNCHANGED <<impl, cvars, SUBSCRIBERS, file, mvars, OFFSET, cur, out, replies,
                   processed, nextId, committed, boots>>

Bump(f, i) == [f EXCEPT ![i] = IF @ < 2 THEN @ + 1 ELSE @]

\* where updates_loop goes when process_update raises: the except clause
\* abandons the batch, logs and sleeps
OnHandlerErrorExit == "exit"
OnHandlerError == "sleep"

\* one iteration of the for loop: the cursor moves, then process_update runs
\* up to its first call that another thread can observe
NextUpdate(upd) ==
    /\ upc = "batch"
    /\ batch # <<>>
    /\ upd.update_id = Head(batch)
    /\ cur' = <<upd>>
    /\ replies' = <<>>
    /\ processed' = Bump(processed, upd.update_id)
    /\ LET h == process_update(impl, upd, SUBSCRIBERS) IN
         /\ OFFSET' = Cursor(OFFSET, upd.update_id, h.outcome)
         /\ SUBSCRIBERS' = h.subs
         /\ out' = h.reply
         /\ upc' = CASE h.outcome = "return" -> "batch"
                     [] h.outcome = "raise" -> OnHandlerError
                     [] h.save -> "save"
                     [] OTHER -> "reply"
         /\ batch' = IF h.outcome = "raise" THEN <<>> ELSE Tail(batch)
    /\ UNCHANGED <<impl, cvars, file, mvars, params, polled, svars>>

\* json.dump(list(SUBSCRIBERS), f)
Dump(subs) == { <<l>> : l \in Lists(subs) }

\* save_subscribers(), called by the /minha and /stop branches of main.py
Save ==
    /\ upc = "save"
    /\ file' \in Dump(SUBSCRIBERS)
    /\ committed' = SUBSCRIBERS
    /\ upc' = "reply"
    /\ UNCHANGED <<impl, cvars, SUBSCRIBERS, mvars, OFFSET, params, polled, batch, cur, out,
                   replies, processed, pending, nextId, boots>>

\* does an exception of requests.post leave send_message?
\* main.py catches it inside send_message, the one-file deploy does not
SendRaises(im, ok) == ~ok /\ im = "oneclick"

\* the send_message call that ends process_update
ReplyRetrying(ok) ==
    /\ upc = "reply"
    /\ replies' = Append(replies, [to |-> out[1].to, text |-> out[1].text, ok |-> ok])
    /\ out' = IF ok THEN <<>> ELSE out
    /\ upc' = IF ok THEN "batch" ELSE "reply"
    /\ UNCHANGED <<impl, cvars, SUBSCRIBERS, file, mvars, OFFSET, params, polled, batch, cur,
                   processed, svars>>
Reply(ok) ==
    /\ upc = "reply"
    /\ replies' = Append(replies, [to |-> out[1].to, text |-> out[1].text, ok |-> ok])
    /\ out' = <<>>
    /\ upc' = IF SendRaises(impl, ok) THEN OnHandlerError ELSE "batch"
    /\ batch' = IF SendRaises(impl, ok) THEN <<>> ELSE batch
    /\ UNCHANGED <<impl, cvars, SUBSCRIBERS, file, mvars, OFFSET, params, polled, cur,
                   processed, svars>>

\* the for loop is exhausted: back to the top of while True
\* (the history of the last process_update call is dropped)
LoopBack ==
    /\ upc = "batch"
    /\ batch = <<>>
    /\ upc' = "poll"
    /\ cur' = <<>>
    /\ replies' = <<>>
    /\ UNCHANGED <<impl, cvars, SUBSCRIBERS, file, mvars, OFFSET, params, polled, batch,
                   out, processed, svars>>

\* time.sleep(2), then back to the top of while True
DispatcherSleep ==
    /\ upc = "sleep"
    /\ upc' = "poll"
    /\ cur' = <<>>
    /\ replies' = <<>>
    /\ UNCHANGED <<impl, cvars, SUBSCRIBERS, file, mvars, OFFSET, params, polled, batch,
                   out, processed, svars>>

(* ----------------------------------------------------------------- Next *)
MonitorNext ==
    \/ \E kind \in {"network", "timeout"} : MonitorFetchFail(kind)
    \/ \E status \in Statuses, content \in Contents : MonitorFetch(status, content)
    \/ NotifyList
    \/ \E ok \in BOOLEAN : NotifySend(ok)
    \/ NotifyDone
    \/ MonitorSleep

DispatcherNext(texts, limit) ==
    \/ ServerReceive(limit)
    \/ PollFail
    \/ PollNotOk
    \/ PollOk
    \/ \E id \in UpdateIds : \E upd \in Updates(id, texts) : NextUpdate(upd)
    \/ Save
    \/ \E ok \in BOOLEAN : Reply(ok)
    \/ LoopBack
    \/ DispatcherSleep

\* both loops, running concurrently (threading.Thread + the main thread)
Next == MonitorNext \/ DispatcherNext(CoreTexts, MaxConcurrentUpdates)

Spec == Init /\ [][Next]_vars

\* the dispatcher alone, on every kind of inbound text
DispatchNext == DispatcherNext(AllTexts, MaxUpdates)

DispatchSpec == Init /\ [][DispatchNext]_vars

(* -------------------------------------------------------------- restart *)
\* restarts of the process in a run
MaxRestarts == 1
\* inbound updates of a run with restarts, or followed from start-up
MaxRestartUpdates == 1

\* The process is stopped, wherever its threads are, and started again: the
\* module level runs anew (SUBSCRIBERS = load_subscribers(), or set() in the
\* one-file deploy; LAST_CONTENT = None; OFFSET = None) and both loops start
\* from their top.  The file and what the platform holds stay.
Restart ==
    /\ boots < MaxRestarts
    /\ boots' = boots + 1
    /\ SUBSCRIBERS' = IF impl = "main" THEN load_subscribers(file) ELSE {}
    /\ LAST_CONTENT' = None
    /\ OFFSET' = <<>>
    /\ r' = NoResponse
    /\ mpc' = "fetch"
    /\ todo' = <<>>
    /\ prev' = None
    /\ notified' = FALSE
    /\ bcast' = {}
    /\ bfile' = <<>>
    /\ alerts' = <<>>
    /\ upc' = "poll"
    /\ params' = <<>>
    /\ batch' = <<>>
    /\ cur' = <<>>
    /\ out' = <<>>
    /\ replies' = <<>>
    /\ polled' = "none"
    /\ UNCHANGED <<impl, cvars, file, processed, pending, nextId, committed>>

\* both loops and restarts
RestartNext ==
    \/ MonitorNext
    \/ DispatcherNext(CoreTexts, MaxRestartUpdates)
    \/ Restart

RestartSpec == Init /\ [][RestartNext]_vars

(* ------------------------------------------------------------- start-up *)
\* what the environment can hold for TELEGRAM_TOKEN
Tokens == {None, "", "123:abc"}

\* not TELEGRAM_TOKEN
TokenMissing(tok) == tok = None \/ tok = ""

\* if not TELEGRAM_TOKEN: raise RuntimeError(...), first statement after the
\* imports; otherwise the module goes on to build the subscriber store
NoTokenCheck(tok) == "store"
AfterTokenCheck(tok) == IF TokenMissing(tok) THEN "exited" ELSE "store"

\* the process as the interpreter begins to run the file
StartInit ==
    /\ impl \in {"main", "oneclick"}
    /\ TELEGRAM_TOKEN \in Tokens
    /\ phase = "import"
    /\ file \in IF impl = "main"
                THEN {<<>>} \cup { <<l>> : l \in UNION {Lists(S) : S \in SUBSET ChatIds} }
                ELSE {<<>>}
    /\ SUBSCRIBERS = {}
    /\ committed = {}
    /\ LAST_CONTENT = None
    /\ r = NoResponse
    /\ mpc = "fetch"
    /\ todo = <<>>
    /\ prev = None
    /\ notified = FALSE
    /\ bcast = {}
    /\ bfile = <<>>
    /\ alerts = <<>>
    /\ OFFSET = <<>>
    /\ upc = "poll"
    /\ params = <<>>
    /\ batch = <<>>
    /\ cur = <<>>
    /\ out = <<>>
    /\ replies = <<>>
    /\ polled = "none"
    /\ pending = {}
    /\ nextId = FirstUpdateId
    /\ processed = [i \in UpdateIds |-> 0]
    /\ boots = 0
    /\ sample = <<>>
    /\ detected = <<>>
    /\ hung = "none"

\* TELEGRAM_TOKEN = os.getenv(...); if not TELEGRAM_TOKEN: raise RuntimeError
CheckToken ==
    /\ phase = "import"
    /\ phase' = AfterTokenCheck(TELEGRAM_TOKEN)
    /\ UNCHANGED <<impl, TELEGRAM_TOKEN, sample, detected, hung, SUBSCRIBERS, file, mvars, uvars, svars>>

\* SUBSCRIBERS = load_subscribers()  (SUBSCRIBERS = set() in the one-file deploy)
LoadStore ==
    /\ phase = "store"
    /\ SUBSCRIBERS' = IF impl = "main" THEN load_subscribers(file) ELSE {}
    /\ committed' = SUBSCRIBERS'
    /\ phase' = "main"
    /\ UNCHANGED <<impl, TELEGRAM_TOKEN, sample, detected, hung, file, mvars, uvars, pending, nextId, boots>>

\* __main__: the health server and monitor threads are started and
\* updates_loop() is entered
StartThreads ==
    /\ phase = "main"
    /\ phase' = "running"
    /\ UNCHANGED <<impl, TELEGRAM_TOKEN, sample, detected, hung, SUBSCRIBERS, file, mvars, uvars, svars>>

\* start-up, then both loops
StartNext ==
    \/ CheckToken
    \/ LoadStore
    \/ StartThreads
    \/ phase = "running" /\ MonitorNext
    \/ phase = "running" /\ DispatcherNext(CoreTexts, MaxRestartUpdates)

StartSpec == StartInit /\ [][StartNext]_vars

(* ------------------------------------------------------------- progress *)
\* inbound updates of a run checked for progress
MaxLiveUpdates == 1

\* the loop is inside send_message
Sending(loop) ==
    \/ loop = "monitor" /\ mpc = "send" /\ todo # <<>>
    \/ loop = "dispatcher" /\ upc = "reply"

\* requests.post in send_message is called without a timeout: when the peer
\* never answers, the loop that made the call stays in it
Blocked(loop) == hung = loop

\* the peer does not answer the send a loop is making
Hang(loop) ==
    /\ hung = "none"
    /\ Sending(loop)
    /\ hung' = loop
    /\ UNCHANGED <<impl, TELEGRAM_TOKEN, phase, sample, detected, SUBSCRIBERS,
                   file, mvars, uvars, svars>>

\* the steps of the monitor thread
LiveMonitor == ~Blocked("monitor") /\ MonitorNext

\* the steps of the main thread in updates_loop
LiveDispatcher ==
    /\ ~Blocked("dispatcher")
    /\ \/ PollFail
       \/ PollNotOk
       \/ PollOk
       \/ \E id \in UpdateIds : \E upd \in Updates(id, CoreTexts) : NextUpdate(upd)
       \/ Save
       \/ \E ok \in BOOLEAN : Reply(ok)
       \/ LoopBack
       \/ DispatcherSleep

LiveNext ==
    \/ LiveMonitor
    \/ LiveDispatcher
    \/ ServerReceive(MaxLiveUpdates)
    \/ \E loop \in {"monitor", "dispatcher"} : Hang(loop)

\* each thread is scheduled again and again: a thread that can take a step
\* takes one (time.sleep and the requests with a timeout return)
LiveSpec ==
    /\ Init
    /\ [][LiveNext]_vars
    /\ WF_vars(LiveMonitor)
    /\ WF_vars(LiveDispatcher)

(* --------------------------------------------- detect_language by itself *)
\* number of fragments a sample text is put together from
MaxParts == 3

\* pieces of text: keywords whole and split, in both cases, Arabic letters,
\* a command, and characters that belong to no keyword
Fragments ==
    { <<"m","e","r">>,
      <<"c","i">>,
      <<"M","E","R","C","I">>,
      <<"m","i","n","i","s","t">>,
      <<"E_GRAVE","R","E">>,
      <<"e","r","e">>,
      <<"MEEM">>,
      <<"TEH_MARBUTA"," ">>,
      <<"/","m","i","n","h","a"," ">>,
      <<"x"," ">> }

RECURSIVE Samples(_)
Samples(n) ==
    IF n = 0 THEN { <<>> }
    ELSE LET shorter == Samples(n - 1)
         IN  shorter \cup { s \o f : s \in shorter, f \in Fragments }

\* a text arrives at detect_language; the rest of the program is at rest
LangInit ==
    /\ impl \in {"main", "oneclick"}
    /\ sample \in Samples(MaxParts)
    /\ detected = <<>>
    /\ hung = "none"
    /\ TELEGRAM_TOKEN = "123:abc"
    /\ phase = "running"
    /\ file = <<>>
    /\ SUBSCRIBERS = {}
    /\ committed = {}
    /\ LAST_CONTENT = None
    /\ r = NoResponse
    /\ mpc = "fetch"
    /\ todo = <<>>
    /\ prev = None
    /\ notified = FALSE
    /\ bcast = {}
    /\ bfile = <<>>
    /\ alerts = <<>>
    /\ OFFSET = <<>>
    /\ upc = "poll"
    /\ params = <<>>
    /\ batch = <<>>
    /\ cur = <<>>
    /\ out = <<>>
    /\ replies = <<>>
    /\ polled = "none"
    /\ pending = {}
    /\ nextId = FirstUpdateId
    /\ processed = [i \in UpdateIds |-> 0]
    /\ boots = 0

\* lang = detect_language(text)
Detect ==
    /\ detected = <<>>
    /\ detected' = << detect_language(sample) >>
    /\ UNCHANGED <<impl, TELEGRAM_TOKEN, phase, sample, hung, SUBSCRIBERS, file,
                   mvars, uvars, svars>>

LangNext == Detect

LangSpec == LangInit /\ [][LangNext]_vars

(* ========================================================== properties *)
IsResponse == r.err = "none"

\* a 2xx HTTP status
IsSuccess(status) == status >= 200 /\ status <= 299

\* the current tick fetched content that differs from an existing snapshot
ChangeTick == IsResponse /\ prev # None /\ r.text # prev

\* number of entries of a log of send_message calls addressed to chat c
SentTo(log, c) == Cardinality({i \in 1..Len(log) : log[i].to = c})

\* number of occurrences of c in a list
Occurs(l, c) == Cardinality({i \in 1..Len(l) : l[i] = c})

(* C1: notify_all_subscribers runs only on a tick that found a snapshot   *)
(* already stored and fetched content different from it; never on the     *)
(* first successful fetch (empty or not), never on identical content.     *)
C1_NotifyOnlyOnChange ==
    (mpc \in {"notify", "send"} \/ notified) => ChangeTick

\* a tick has ended without a broadcast although it fetched successfully:
\* the snapshot was the empty string and the page was the empty string again
C1_Witness ==
    /\ mpc = "sleep"
    /\ IsResponse
    /\ prev = ""
    /\ r.text = ""
    /\ LAST_CONTENT = ""
    /\ ~notified

(* C2: when a tick of the tracking monitor fetches content different from *)
(* the snapshot, the snapshot becomes the fetched content and, once the    *)
(* broadcast is over, exactly one alert, the same text built from          *)
(* MINHA_URL, was sent to each subscriber that was in the store when the   *)
(* broadcast listed it, and none to anybody else.                          *)
C2_ChangeBroadcast ==
    /\ (mpc # "fetch" /\ ChangeTick) => LAST_CONTENT = r.text
    /\ (mpc = "sleep" /\ ChangeTick) =>
          /\ notified
          /\ \A c \in ChatIds : SentTo(alerts, c) = IF c \in bcast THEN 1 ELSE 0
          /\ \A i \in 1..Len(alerts) :
                /\ alerts[i].text = AlertText
                /\ alerts[i].text.url = MINHA_URL

\* page went from "" to "A" with subscribers {100, 200}: one alert each
C2_Witness ==
    /\ mpc = "sleep"
    /\ prev = ""
    /\ IsResponse
    /\ r.text = "A"
    /\ LAST_CONTENT = "A"
    /\ bcast = {100, 200}
    /\ SentTo(alerts, 100) = 1
    /\ SentTo(alerts, 200) = 1

(* C3 (as claimed): on a failed fetch (network error, timeout, non-success *)
(* HTTP status) the snapshot keeps its value and nothing is broadcast.     *)
C3_FailedFetchLeavesState ==
    (mpc # "fetch" /\ (~IsResponse \/ ~IsSuccess(r.status))) =>
        /\ LAST_CONTENT = prev
        /\ mpc = "sleep"
        /\ ~notified

(* C4: in a broadcast a failed send stops nothing: whichever sends fail,   *)
(* every listed subscriber is sent to exactly once, and the monitor loop   *)
(* goes on to its sleep.                                                   *)
C4_SendFailureIsolated ==
    /\ mpc \in {"fetch", "notify", "send", "sleep"}
    /\ notified =>
          /\ \A c \in ChatIds :
                SentTo(alerts, c) + Occurs(todo, c) = IF c \in bcast THEN 1 ELSE 0
          /\ mpc = "sleep" => todo = <<>>

\* a finished broadcast whose first send failed and whose second succeeded
C4_Witness ==
    /\ mpc = "sleep"
    /\ notified
    /\ Len(alerts) = 2
    /\ ~alerts[1].ok
    /\ alerts[2].ok

\* ids of the updates the for loop has taken so far
Consumed == {i \in UpdateIds : processed[i] > 0}

MaxOf(S) == CHOOSE x \in S : \A y \in S : y <= x

\* last consumed update id + 1, or nothing when no update was consumed
AfterLastConsumed == IF Consumed = {} THEN <<>> ELSE <<MaxOf(Consumed) + 1>>

(* C5: the cursor is always (last consumed update id + 1); every          *)
(* getUpdates request carries that value as its offset; the cursor never   *)
(* decreases; no update already consumed is in a batch again.              *)
C5_CursorMonotone ==
    /\ [](OFFSET = AfterLastConsumed)
    /\ [](\A i \in Range(batch) : processed[i] = 0)
    /\ [][ /\ (upc = "poll" /\ upc' # "poll") => params' = AfterLastConsumed
           /\ OFFSET # <<>> => (OFFSET' # <<>> /\ OFFSET'[1] >= OFFSET[1])
        ]_vars

\* every update the platform produced was consumed and the poll that
\* followed asked for the id after the last one (8 after 5, 6, 7)
C5_Witness ==
    /\ \A i \in UpdateIds : processed[i] = 1
    /\ OFFSET = <<LastUpdateId + 1>>
    /\ params = <<LastUpdateId + 1>>

\* the call of process_update on cur raised: a message without a chat, or,
\* in the one-file deploy, a reply whose send failed
Raised ==
    /\ cur # <<>>
    /\ \/ cur[1].kind = "nochat"
       \/ impl = "oneclick" /\ replies # <<>> /\ ~replies[Len(replies)].ok

\* the call of process_update on cur returned at once: no message in it
Skipped == cur # <<>> /\ cur[1].kind = "nomessage"

(* C6: an update on which process_update raises or which it skips is      *)
(* behind the cursor at once, so it is processed once and never fetched    *)
(* again; updates_loop stays in its loop; every update that has not been   *)
(* processed is still held by the platform at or above the cursor, so the  *)
(* rest of an abandoned batch comes back with the next poll, and no update *)
(* is processed twice.                                                     *)
C6_CursorPastEveryUpdate ==
    /\ upc \in {"poll", "batch", "save", "reply", "sleep"}
    /\ \A i \in UpdateIds : processed[i] <= 1
    /\ \A i \in Range(batch) : processed[i] = 0
    /\ \A i \in UpdateIds :
          (i < nextId /\ processed[i] = 0) =>
              /\ i \in pending
              /\ OFFSET = <<>> \/ i >= OFFSET[1]
    /\ (Raised \/ Skipped) =>
          /\ OFFSET = <<cur[1].update_id + 1>>
          /\ processed[cur[1].update_id] = 1
    /\ Raised => (upc = "sleep" /\ batch = <<>>)

\* the first update had no chat and raised while the platform held two
\* later updates, which are still there, above the cursor
C6_Witness ==
    /\ Raised
    /\ cur[1].kind = "nochat"
    /\ cur[1].update_id = FirstUpdateId
    /\ OFFSET = <<FirstUpdateId + 1>>
    /\ {FirstUpdateId + 1, FirstUpdateId + 2} \subseteq pending
    /\ processed[FirstUpdateId + 1] = 0

\* cur is a message that takes branch b of process_update
CurIs(b) == cur # <<>> /\ cur[1].kind = "message" /\ Branch(cur[1].text) = b

(* C7: in main.py, whenever the dispatcher is not between a change of the *)
(* set and the save_subscribers call that follows it, subscribers.json     *)
(* holds exactly the in-memory set (each member once); after /minha or     *)
(* /stop has saved, the file exists.                                       *)
C7_FileEqualsSet ==
    (impl = "main" /\ upc # "save") =>
        /\ load_subscribers(file) = SUBSCRIBERS
        /\ file # <<>> => Len(file[1]) = Cardinality(SUBSCRIBERS)
        /\ (CurIs("minha") \/ CurIs("stop")) => file # <<>>

\* /stop of 100 has been saved: the file went from both ids to 200 alone
C7_Witness ==
    /\ impl = "main"
    /\ upc = "reply"
    /\ CurIs("stop")
    /\ cur[1].chat = 100
    /\ SUBSCRIBERS = {200}
    /\ file = << <<200>> >>

(* C8 (as claimed): in main.py the broadcast lists the subscriber set only *)
(* when the set equals what subscribers.json holds, never between the      *)
(* in-memory change and its save.                                          *)
C8_BroadcastReadsSavedSet ==
    (impl = "main" /\ notified) => bcast = load_subscribers(bfile)

\* the confirmation of /minha for the message in cur
MinhaReply(upd) ==
    [to |-> upd.chat, text |-> Lit("minha_ok", detect_language(upd.text))]

(* C9: taking a "/minha" message of sender s makes the set the previous   *)
(* set with s added (so nothing changes when s is a member already), the   *)
(* set then stays as it is until the reply, and the one reply goes to s    *)
(* and is the confirmation in the language detected for the text.          *)
C9_MinhaAdds ==
    [][ /\ (cur' # cur /\ CurIs("minha")') =>
              /\ SUBSCRIBERS' = SUBSCRIBERS \cup {cur'[1].chat}
              /\ out' = << MinhaReply(cur'[1]) >>
        /\ (cur' = cur /\ CurIs("minha")) => SUBSCRIBERS' = SUBSCRIBERS
        /\ (CurIs("minha") /\ upc = "reply" /\ upc' # "reply") =>
              /\ Len(replies') = 1
              /\ replies'[1].to = cur[1].chat
              /\ replies'[1].text = MinhaReply(cur[1]).text
      ]_vars

\* "/MINHA merci" of 100 while 200 is subscribed: both are members and 100
\* got the French confirmation
C9_Witness ==
    /\ CurIs("minha")
    /\ cur[1].chat = 100
    /\ detect_language(cur[1].text) = "fr"
    /\ SUBSCRIBERS = {100, 200}
    /\ Len(replies) = 1
    /\ replies[1].to = 100
    /\ replies[1].text = Lit("minha_ok", "fr")

(* C10 (as claimed): for "/stop" or "/unsubscribe" of sender s, in both   *)
(* programs, s is not in the set afterwards and the reply is the           *)
(* confirmation in the detected language whether or not s was a member.    *)
C10_StopReplyUnconditional ==
    CurIs("stop") =>
        /\ cur[1].chat \notin SUBSCRIBERS
        /\ upc = "reply" =>
              out = << [to |-> cur[1].chat,
                        text |-> Lit("stop_ok", detect_language(cur[1].text))] >>
        /\ replies # <<>> =>
              replies[1].text = Lit("stop_ok", detect_language(cur[1].text))

(* C11: in main.py the set loaded by a restart is the in-memory set as it *)
(* was when the last mutating call (add or discard, then save) returned;    *)
(* a start with no subscribers.json gives the empty set; a restart leaves   *)
(* no cursor and no page snapshot.                                          *)
C11_SubscribersSurviveRestart ==
    /\ (impl = "main" /\ file = <<>>) => SUBSCRIBERS = {}
    /\ [][ boots' # boots =>
              /\ impl = "main" => SUBSCRIBERS' = committed
              /\ (impl = "main" /\ file = <<>>) => SUBSCRIBERS' = {}
              /\ OFFSET' = <<>>
              /\ LAST_CONTENT' = None
        ]_vars

\* main.py just restarted after update 5 was processed: both subscribers
\* are loaded again, the cursor and the snapshot are gone
C11_Witness ==
    /\ impl = "main"
    /\ boots = 1
    /\ upc = "poll"
    /\ mpc = "fetch"
    /\ params = <<>>
    /\ processed[FirstUpdateId] = 1
    /\ SUBSCRIBERS = {100, 200}
    /\ committed = {100, 200}
    /\ OFFSET = <<>>
    /\ LAST_CONTENT = None

\* cur is a message with a sender
CurHasSender == cur # <<>> /\ cur[1].kind = "message"

(* C12: for a consumed update that is a message with a sender, whatever    *)
(* branch handles it, process_update makes exactly one send_message call,   *)
(* addressed to that sender: none before the call is reached, one once it   *)
(* is made, the failed one included; an update without message or sender    *)
(* gets no reply.                                                           *)
C12_OneReplyPerMessage ==
    /\ CurHasSender =>
          IF upc \in {"save", "reply"}
          THEN /\ replies = <<>>
               /\ out # <<>>
               /\ out[1].to = cur[1].chat
          ELSE /\ Len(replies) = 1
               /\ replies[1].to = cur[1].chat
               /\ out = <<>>
    /\ (cur # <<>> /\ ~CurHasSender) => (replies = <<>> /\ out = <<>>)
    /\ cur = <<>> => (replies = <<>> /\ out = <<>>)

\* "/foo" of 200 was answered, once, to 200
C12_Witness ==
    /\ CurIs("unknown")
    /\ cur[1].chat = 200
    /\ upc = "batch"
    /\ Len(replies) = 1
    /\ replies[1].to = 200

(* C13: with TELEGRAM_TOKEN missing the process ends at the check: the   *)
(* subscriber file is never read, no thread or loop starts, and neither     *)
(* loop makes a request or sends a message.                                 *)
C13_NoTokenNoStart ==
    TokenMissing(TELEGRAM_TOKEN) =>
        /\ phase \in {"import", "exited"}
        /\ mpc = "fetch" /\ r = NoResponse /\ LAST_CONTENT = None
        /\ alerts = <<>> /\ todo = <<>>
        /\ upc = "poll" /\ params = <<>> /\ OFFSET = <<>>
        /\ cur = <<>> /\ replies = <<>> /\ out = <<>>
        /\ \A i \in UpdateIds : processed[i] = 0

\* the variable is unset and the process has ended at the check
C13_Witness ==
    /\ TELEGRAM_TOKEN = None
    /\ phase = "exited"

\* the text has a character of the Arabic letter set
HasArabicLetter(t) == \E i \in 1..Len(t) : t[i] \in ARABIC_LETTERS

\* a French keyword occurs in the text, letter case set aside
HasFrenchKeyword(t) ==
    \E k \in FRENCH_KEYWORDS :
        \E i \in 0..(Len(t) - Len(k)) :
            \A j \in 1..Len(k) : LowerChar(t[i + j]) = k[j]

(* C14: detect_language answers every text with one of ar, fr, en: ar when  *)
(* the text has an Arabic letter, whatever else it holds; fr when it has    *)
(* none and a French keyword occurs in any letter case; en otherwise, the   *)
(* empty text included.                                                     *)
C14_LanguagePriority ==
    detected # <<>> =>
        /\ detected[1] \in {"ar", "fr", "en"}
        /\ HasArabicLetter(sample) => detected[1] = "ar"
        /\ (~HasArabicLetter(sample) /\ HasFrenchKeyword(sample))
              => detected[1] = "fr"
        /\ (~HasArabicLetter(sample) /\ ~HasFrenchKeyword(sample))
              => detected[1] = "en"
        /\ sample = <<>> => detected[1] = "en"

\* a text with both a French keyword in upper case and an Arabic letter
C14_Witness ==
    /\ detected = << "ar" >>
    /\ sample = <<"M","E","R","C","I">> \o <<"MEEM">>

\* the text begins with '/' and its first token is none of the commands
IsUnknownCommand(t) ==
    /\ StartsWithSlash(t)
    /\ Lower(FirstToken(t)) \notin
          {CMD_START, CMD_MINHA, CMD_STOP, CMD_UNSUBSCRIBE, CMD_HELP, CMD_AIDE}

\* the text is plain text or a command other than /minha, /stop, /unsubscribe
IsStoreNeutral(t) ==
    \/ ~StartsWithSlash(t)
    \/ Lower(FirstToken(t)) \notin {CMD_MINHA, CMD_STOP, CMD_UNSUBSCRIBE}

\* what the reply generator answers to the sender of a message
GenericReply(upd) ==
    [to |-> upd.chat,
     text |-> ai_reply(impl, upd.text, detect_language(upd.text))]

\* the step in which process_update takes a message
TakesMessage == upc = "batch" /\ upc' \in {"save", "reply"}

(* C15: a message whose first token is an unknown "/" command gets the      *)
(* reply the reply generator gives that text, as a plain text does; taking  *)
(* it, or /start, /help, /aide or plain text, and sending its reply leave   *)
(* the subscriber set, subscribers.json and the page snapshot as they were, *)
(* and no save is made.                                                     *)
C15_UnknownCommandIsPlainText ==
    /\ [][ (TakesMessage /\ (IsUnknownCommand(cur'[1].text)
                               \/ ~StartsWithSlash(cur'[1].text)))
              => out' = << GenericReply(cur'[1]) >> ]_vars
    /\ [][ (TakesMessage /\ IsStoreNeutral(cur'[1].text))
              => /\ upc' = "reply"
                 /\ UNCHANGED <<SUBSCRIBERS, file, LAST_CONTENT>> ]_vars
    /\ [][ (upc = "reply" /\ IsStoreNeutral(cur[1].text))
              => UNCHANGED <<SUBSCRIBERS, file, LAST_CONTENT>> ]_vars

\* chat 100, a subscriber, has sent "/foo" and has been answered
C15_Witness ==
    /\ cur # <<>> /\ cur[1].kind = "message"
    /\ cur[1].text = <<"/","f","o","o">> /\ cur[1].chat = 100
    /\ upc = "batch"
    /\ Len(replies) = 1
    /\ replies[1].to = 100
    /\ replies[1].text = GenericReply(cur[1]).text
    /\ SUBSCRIBERS = {100}

\* the last getUpdates request raised, or was answered without success
PollFailed(p) == p \in {"error", "notok"}

(* C16 (as claimed): a getUpdates poll that fails (request error, timeout,  *)
(* or an answer that is not a successful result) processes no message and   *)
(* leaves the cursor and the subscriber store as they were; the dispatcher  *)
(* then sleeps its fixed delay and polls again with the same offset.        *)
C16_FailedPollBacksOff ==
    /\ [][ (upc = "poll" /\ upc' # "poll" /\ PollFailed(polled'))
              => /\ upc' = "sleep"
                 /\ UNCHANGED <<OFFSET, SUBSCRIBERS, file, cur, processed>>
       ]_vars
    /\ [][ (upc = "sleep" /\ PollFailed(polled))
              => /\ upc' \in {"sleep", "poll"}
                 /\ UNCHANGED <<OFFSET, SUBSCRIBERS, file, processed>>
       ]_vars
    /\ [][ (upc = "poll" /\ PollFailed(polled) /\ upc' # "poll")
              => params' = params
       ]_vars

(* C17: neither loop ends.  Whatever fetches, sends, polls and handlers   *)
(* fail, the monitor is again and again at its fetch and past it, and the   *)
(* dispatcher again and again at its poll and past it; a loop that is held  *)
(* in a send for good stops only itself.                                    *)
C17_LoopsNeverEnd ==
    /\ \/ []<>(mpc = "fetch") /\ []<>(mpc = "sleep")
       \/ <>[]Blocked("monitor")
    /\ \/ []<>(upc = "poll") /\ []<>(upc # "poll")
       \/ <>[]Blocked("dispatcher")

\* the dispatcher is held in a reply while the monitor, after a failed alert
\* send, has finished its broadcast
C17_Witness ==
    /\ Blocked("dispatcher")
    /\ mpc = "sleep"
    /\ notified
    /\ \E i \in 1..Len(alerts) : ~alerts[i].ok

(* C18: a broadcast sends to the ids that list(SUBSCRIBERS) held when it  *)
(* was taken and to no other, whatever the dispatcher does meanwhile: an    *)
(* id added after the list was taken gets no alert, an id removed after it  *)
(* still gets its alert, and a change of the set during the broadcast       *)
(* touches neither the list nor the sends made, so that the finished        *)
(* broadcast has sent once to every listed id.                              *)
C18_BroadcastUsesSnapshot ==
    /\ [](notified =>
            /\ \A i \in 1..Len(alerts) : alerts[i].to \in bcast
            /\ \A i \in 1..Len(todo) : todo[i] \in bcast
            /\ mpc = "sleep" => \A c \in bcast : SentTo(alerts, c) = 1)
    /\ [][ (mpc = "send" /\ SUBSCRIBERS' # SUBSCRIBERS)
              => UNCHANGED <<mpc, todo, alerts, bcast>> ]_vars

\* chat 100 has its unsubscribe confirmation and is no longer a member,
\* and the broadcast that listed it has its alert still to send
C18_Witness ==
    /\ mpc = "send"
    /\ bcast = {100, 200}
    /\ todo = <<100>>
    /\ SUBSCRIBERS = {200}
    /\ cur # <<>> /\ cur[1].kind = "message" /\ cur[1].chat = 100
    /\ Branch(cur[1].text) = "stop"
    /\ Len(replies) = 1 /\ replies[1].ok

\* the text is a /minha, /stop or /unsubscribe command
IsStoreCommand(t) ==
    /\ StartsWithSlash(t)
    /\ Lower(FirstToken(t)) \in {CMD_MINHA, CMD_STOP, CMD_UNSUBSCRIBE}

(* C19: the store has one writer.  No monitor step (fetch, compare,         *)
(* snapshot update, listing, send, sleep) changes the subscriber set,       *)
(* subscribers.json or the dispatcher cursor; no dispatcher step changes    *)
(* the page snapshot; the set changes only in the step that takes a /minha, *)
(* /stop or /unsubscribe message, and the file only in the save of one.     *)
C19_SingleWriter ==
    /\ [][ mvars' # mvars => UNCHANGED <<SUBSCRIBERS, file, OFFSET>> ]_vars
    /\ [][ uvars' # uvars => LAST_CONTENT' = LAST_CONTENT ]_vars
    /\ [][ SUBSCRIBERS' # SUBSCRIBERS
              => /\ TakesMessage
                 /\ IsStoreCommand(cur'[1].text) ]_vars
    /\ [][ file' # file
              => /\ upc = "save" /\ upc' = "reply"
                 /\ cur[1].kind = "message"
                 /\ IsStoreCommand(cur[1].text) ]_vars

\* in one run the monitor has stored a second snapshot and sent an alert, and
\* the dispatcher has subscribed a chat and saved the set
C19_Witness ==
    /\ impl = "main"
    /\ LAST_CONTENT = "A"
    /\ prev = ""
    /\ notified
    /\ Len(alerts) = 1
    /\ cur # <<>> /\ cur[1].kind = "message"
    /\ IsStoreCommand(cur[1].text)
    /\ upc = "reply"
    /\ SUBSCRIBERS = {100, 200}
    /\ file # <<>> /\ load_subscribers(file) = {100, 200}
    /\ bcast = {100}

====
